---- MODULE Spec2Model ----
(***************************************************************************)
(* A model of pyraven-mqtt: the relay (src/pyrmqtt.py), which polls a      *)
(* RAVEn stick and publishes its samples to an MQTT broker, and the        *)
(* PVOutput uploader (src/pvoutput_uploader.py), which caches the latest   *)
(* demand reading received from the broker and uploads it on an aligned    *)
(* tick.  The two programs are separate processes: Spec is the relay,      *)
(* SpecUploader the uploader.                                              *)
(*                                                                         *)
(* The broker, the paho client library, the device driver, the clock and   *)
(* the signals are the environment.  A broker call succeeds or fails with  *)
(* the state of the session at the moment of the call, and the broker      *)
(* goes down and comes back at any moment.  The network loop that paho     *)
(* runs inside loop_start() is modelled only as the thread that runs the   *)
(* callbacks the relay installs.                                           *)
(***************************************************************************)
EXTENDS Integers, Sequences, FiniteSets, TLC

VARIABLES
    \* ---- relay (src/pyrmqtt.py) ----
    pc,           \* the main thread's position
    stopping,     \* stopping_flag[0]
    handlers,     \* the signal handlers are installed
    willArmed,    \* client.will_set(state, "offline") was called
    loopRunning,  \* client.loop_start() .. client.loop_stop()
    brokerUp,     \* the broker accepts connections
    connected,    \* the client holds a session with the broker
    events,       \* events the network thread has still to deliver to callbacks
    backoff,      \* the local `backoff` of the retry loop in progress (seconds)
    delay,        \* the argument of the time.sleep in progress (ulps, see Ulp)
    slept,        \* whole seconds the sleep in progress has lasted
    payload,      \* the local `payload` of transfer_loop
    reconnecting, \* the number of client.reconnect() calls in progress
    needAck,      \* the broker has still to acknowledge the last connect
    stateMsg,     \* the last message the relay published on <prefix>/state
    raised,       \* an error is propagating out of transfer_loop
    exitCode,     \* the process's exit status, "running" until it exits
    \* ---- history of the relay (read by the properties only) ----
    attempt,      \* failed attempts of the retry loop in progress
    trace,        \* broker calls of the publish_with_reconnect in progress
    delivered,    \* a publish of `payload` in this call returned success
    stopLag,      \* seconds slept since the stop flag rose in this backoff sleep, or -1
    \* ---- fragment reader (ResilientRaven, src/pyrmqtt.py) ----
    rdpc,         \* the reader thread's position
    fragment,     \* self.fragment: the chunks buffered so far
    in_fragment,  \* self.in_fragment
    samples,      \* samples the reader has produced
    \* ---- history of the reader (read by the properties only) ----
    fed,          \* the chunks fed since handle_fragment last returned
    outcomes,     \* how the handle_fragment calls ended, in order
    \* ---- uploader (src/pvoutput_uploader.py) ----
    upc,          \* the reporting (main) thread's position
    cbpc,         \* the mqtt-loop thread's position
    subscribed,   \* client.subscribe(MQTT_TOPIC) was called
    holders,      \* the threads inside `with self._lock`
    rawW,         \* LATEST._raw_demand_w: <<>> is None, <<w>> a float
    demKw,        \* LATEST._demand_kw: <<>> is None, <<k>> a float
    ts,           \* LATEST._ts
    updPayload,   \* the local `payload` of update_from_json
    result,       \* the value demand_watts is about to return
    demand_w,     \* the local `demand_w` of main
    voltage_v,    \* the local `voltage_v` of main
    postRc,       \* how the last post_pvoutput ended
    now,          \* time.time(), in seconds
    interval,     \* PVOUTPUT_INTERVAL_SECONDS
    net,          \* PVOUTPUT_NET
    sample,       \* the local `payload` of post_pvoutput
    udelay,       \* the argument of the time.sleep of align_and_sleep
    \* ---- history of the uploader (read by the properties only) ----
    posts,        \* calls of post_pvoutput since the last tick
    hist,         \* what the completed updates amount to, in the order they completed
    snap          \* hist when the demand_watts in progress took the lock

relayVars == <<pc, stopping, handlers, willArmed, loopRunning, brokerUp,
               connected, events, backoff, delay, slept, payload,
               reconnecting, needAck, stateMsg, raised, exitCode,
               attempt, trace, delivered, stopLag>>

readerVars == <<rdpc, fragment, in_fragment, samples, fed, outcomes>>

uploaderVars == <<upc, cbpc, subscribed, holders, rawW, demKw, ts, updPayload,
                  result, demand_w, voltage_v, postRc, now, interval, net,
                  sample, udelay, posts, hist, snap>>

vars == <<relayVars, readerVars, uploaderVars>>

(***************************************************************************)
(* Bounds of the model.                                                    *)
(***************************************************************************)
\* The significand of the model's floats has MantBits bits (a double: 53).
MantBits == 8
\* History counters stop counting here ("MaxAttempt or more").
MaxAttempt == 6
\* The trace keeps the first MaxTrace broker calls of a call.
MaxTrace == 7
\* Callbacks the network thread may have outstanding.
MaxEvents == 1

(***************************************************************************)
(* Program constants.                                                      *)
(***************************************************************************)
DEFAULT_BACKOFF_MAX == 60
\* backoff = 1.0
BackoffBase == 1
\* --poll-interval, default 1.0
PollInterval == 1

RECURSIVE Pow2(_)
Pow2(n) == IF n = 0 THEN 1 ELSE 2 * Pow2(n - 1)

Min(a, b) == IF a < b THEN a ELSE b
Max(a, b) == IF a > b THEN a ELSE b

\* Times are counted in units of 2^-MantBits second: random.random() returns
\* k * 2^-53 with 0 <= k < 2^53, here k * 2^-MantBits with 0 <= k < Ulp.
Ulp == Pow2(MantBits)

RECURSIVE BitLen(_)
BitLen(x) == IF x = 0 THEN 0 ELSE 1 + BitLen(x \div 2)

\* A float holds MantBits significant bits: x, a non-negative number of
\* units, rounded to the nearest float, ties to the even significand.
RoundFloat(x) ==
    IF BitLen(x) <= MantBits THEN x
    ELSE LET q    == Pow2(BitLen(x) - MantBits)
             r    == x % q
             down == x - r
         IN  IF 2 * r < q THEN down
             ELSE IF 2 * r > q THEN down + q
             ELSE IF (down \div q) % 2 = 0 THEN down ELSE down + q

\* The values of random.random() the model draws: both ends of [0, 1) and
\* the middle.
Jitters == {0, Ulp \div 2, Ulp - 1}

\* backoff + random.random(), as the float addition computes it (in units).
FloatAdd(b, k) == RoundFloat(b * Ulp + k)

\* A backoff that doubles without the ceiling.
NextBackoffUncapped(b) == b * 2

\* backoff = min(backoff * 2, float(DEFAULT_BACKOFF_MAX))
NextBackoff(b) == Min(b * 2, DEFAULT_BACKOFF_MAX)

\* The serialized samples the device produces.
Payloads == {"p1", "p2"}

\* The history counters saturate: MaxAttempt stands for "MaxAttempt or more".
Bump(n) == Min(n + 1, MaxAttempt)

\* The trace keeps the first MaxTrace broker calls of the call in progress.
Log(t, e) == IF Len(t) < MaxTrace THEN Append(t, e) ELSE t

\* result.rc == mqtt.MQTT_ERR_SUCCESS: a publish succeeds on a live session.
PublishRc == IF connected THEN "ok" ELSE "fail"

PubEvent(topic, msg, rc) == <<"publish", topic, msg, rc>>
ReconnectEvent(rc) == <<"reconnect", "", "", rc>>

BackoffSleeps == {"cwb_sleeping", "pwr_sleeping"}
PollSleeps == {"tl_sleeping", "tl_fault_sleeping"}

(***************************************************************************)
(* The relay: src/pyrmqtt.py.                                              *)
(***************************************************************************)
setupVars == <<handlers, willArmed, loopRunning>>
sessionVars == <<brokerUp, connected, events, needAck>>
sleepVars == <<delay, slept, stopLag>>
callVars == <<payload, trace, delivered>>
loopVars == <<backoff, attempt>>
outVars == <<reconnecting, stateMsg, raised, exitCode>>

RelayInit ==
    /\ pc = "open_device"
    /\ stopping = FALSE
    /\ handlers = FALSE
    /\ willArmed = FALSE
    /\ loopRunning = FALSE
    /\ brokerUp \in BOOLEAN
    /\ connected = FALSE
    /\ events = <<>>
    /\ backoff = 0
    /\ delay = 0
    /\ slept = 0
    /\ payload = "none"
    /\ reconnecting = 0
    /\ needAck = FALSE
    /\ stateMsg = "none"
    /\ raised = FALSE
    /\ exitCode = "running"
    /\ attempt = 0
    /\ trace = <<>>
    /\ delivered = FALSE
    /\ stopLag = -1

\* A main that goes on without the device.
AfterOpenFailureGoesOn == "make_client"

\* except RuntimeError: sys.exit(2) (lines 310-311).
AfterOpenFailure == "exited"

\* main, lines 303-311: connect_raven_device opens the stick or the process
\* exits with status 2.
MainOpenDevice ==
    /\ pc = "open_device"
    /\ \E opened \in BOOLEAN :
         IF opened
         THEN pc' = "make_client" /\ exitCode' = exitCode
         ELSE pc' = AfterOpenFailure /\ exitCode' = "2"
    /\ UNCHANGED <<stopping, setupVars, sessionVars, sleepVars, callVars,
                   loopVars, reconnecting, stateMsg, raised>>
    /\ UNCHANGED <<readerVars, uploaderVars>>

\* main, line 313: make_client arms the last will.
MainMakeClient ==
    /\ pc = "make_client"
    /\ willArmed' = TRUE
    /\ pc' = "install"
    /\ UNCHANGED <<stopping, handlers, loopRunning, sessionVars, sleepVars,
                   callVars, loopVars, outVars>>
    /\ UNCHANGED <<readerVars, uploaderVars>>

\* main, lines 314-316: the stop flag, the signal handlers, the callbacks.
MainInstall ==
    /\ pc = "install"
    /\ handlers' = TRUE
    /\ pc' = "loop_start"
    /\ UNCHANGED <<stopping, willArmed, loopRunning, sessionVars, sleepVars,
                   callVars, loopVars, outVars>>
    /\ UNCHANGED <<readerVars, uploaderVars>>

\* main, line 318.
MainLoopStart ==
    /\ pc = "loop_start"
    /\ loopRunning' = TRUE
    /\ pc' = "cwb_enter"
    /\ UNCHANGED <<stopping, handlers, willArmed, sessionVars, sleepVars,
                   callVars, loopVars, outVars>>
    /\ UNCHANGED <<readerVars, uploaderVars>>

\* connect_with_backoff, lines 155-156.
CwbEnter ==
    /\ pc = "cwb_enter"
    /\ backoff' = BackoffBase
    /\ attempt' = 0
    /\ pc' = "cwb_check"
    /\ UNCHANGED <<stopping, setupVars, sessionVars, sleepVars, callVars,
                   outVars>>
    /\ UNCHANGED <<readerVars, uploaderVars>>

\* A loop that goes round whatever the stop flag says.
LoopConditionAlways == TRUE

\* while not stopping_flag[0], lines 157 and 189.
LoopCondition == ~stopping

\* connect_with_backoff, line 157: while not stopping_flag[0].
CwbCheck ==
    /\ pc = "cwb_check"
    /\ IF LoopCondition
       THEN pc' = "cwb_connect" /\ UNCHANGED loopVars
       ELSE pc' = "tl_check" /\ backoff' = 0 /\ attempt' = 0
    /\ UNCHANGED <<stopping, setupVars, sessionVars, sleepVars, callVars,
                   outVars>>
    /\ UNCHANGED <<readerVars, uploaderVars>>

\* connect_with_backoff, lines 158-167: client.connect returns, or raises one
\* of the errors the loop catches.
CwbConnect ==
    /\ pc = "cwb_connect"
    /\ IF brokerUp
       THEN /\ connected' = TRUE
            /\ needAck' = TRUE
            /\ pc' = "tl_check"
            /\ backoff' = 0
            /\ attempt' = 0
       ELSE /\ pc' = "cwb_backoff"
            /\ UNCHANGED <<connected, needAck, loopVars>>
    /\ UNCHANGED <<stopping, setupVars, brokerUp, events, sleepVars, callVars,
                   outVars>>
    /\ UNCHANGED <<readerVars, uploaderVars>>

\* time.sleep(backoff + random.random()), lines 168 and 200.
BackoffSleep(from, to) ==
    /\ pc = from
    /\ \E k \in Jitters : delay' = FloatAdd(backoff, k)
    /\ slept' = 0
    /\ stopLag' = -1
    /\ pc' = to
    /\ UNCHANGED <<stopping, setupVars, sessionVars, callVars, loopVars,
                   outVars>>
    /\ UNCHANGED <<readerVars, uploaderVars>>

\* The sleep returns; backoff = min(backoff * 2, 60.0), lines 169 and 201.
BackoffWake(from, to) ==
    /\ pc = from
    /\ slept * Ulp >= delay
    /\ backoff' = NextBackoff(backoff)
    /\ attempt' = Bump(attempt)
    /\ delay' = 0
    /\ slept' = 0
    /\ stopLag' = -1
    /\ pc' = to
    /\ UNCHANGED <<stopping, setupVars, sessionVars, callVars, outVars>>
    /\ UNCHANGED <<readerVars, uploaderVars>>

CwbSleep == BackoffSleep("cwb_backoff", "cwb_sleeping")

CwbWake == BackoffWake("cwb_sleeping", "cwb_check")

\* A second passes inside a time.sleep.  A signal handler that returns does
\* not end the sleep: the sleep lasts until its whole argument has elapsed.
Tick ==
    /\ pc \in BackoffSleeps \cup PollSleeps
    /\ slept * Ulp < delay
    /\ slept' = slept + 1
    /\ stopLag' = IF stopLag >= 0 THEN Min(stopLag + 1, BackoffBase + 1)
                  ELSE stopLag
    /\ UNCHANGED <<pc, stopping, setupVars, sessionVars, delay, callVars,
                   loopVars, outVars>>
    /\ UNCHANGED <<readerVars, uploaderVars>>

\* A transfer loop that polls on whatever the stop flag says.
AfterStopPollsOn == "tl_poll"

\* Where main goes when transfer_loop finds the stop flag set: the loop
\* ends, the function returns and the finally clause runs shutdown_client.
AfterStop == "shutdown"

\* transfer_loop, line 258: while not stopping_flag[0].
TlCheck ==
    /\ pc = "tl_check"
    /\ pc' = IF stopping THEN AfterStop ELSE "tl_poll"
    /\ UNCHANGED <<stopping, setupVars, sessionVars, sleepVars, callVars,
                   loopVars, outVars>>
    /\ UNCHANGED <<readerVars, uploaderVars>>

\* A loop that reads the next sample while the publish of the last one is
\* still being retried.
PollReadyEarly == pc \in {"tl_poll", "pwr_check"}

\* raven_usb.long_poll_result() is called at the top of a turn of the loop
\* (line 260), after the body of the turn before it has run to its end.
PollReady == pc = "tl_poll"

\* A loop that a faulty read ends.
AfterFaultEndsLoop == "shutdown"

\* except (OSError, serial.SerialException, ValueError): the loop logs the
\* fault and goes on to sleep (lines 261-264).
AfterFault == "tl_fault"

\* transfer_loop, lines 259-281: long_poll_result returns a sample, which is
\* serialized and handed to publish_with_reconnect; or it raises an error the
\* loop catches; or it raises one the loop does not catch, which leaves
\* transfer_loop for the finally clause of main.
TlPoll ==
    /\ PollReady
    /\ \/ /\ \E p \in Payloads : payload' = p
          /\ trace' = <<>>
          /\ delivered' = FALSE
          /\ pc' = "pwr_publish"
          /\ raised' = raised
       \/ /\ pc' = AfterFault
          /\ UNCHANGED <<callVars, raised>>
       \/ /\ pc' = "shutdown"
          /\ raised' = TRUE
          /\ UNCHANGED callVars
    /\ UNCHANGED <<stopping, setupVars, sessionVars, sleepVars, loopVars,
                   reconnecting, stateMsg, exitCode>>
    /\ UNCHANGED <<readerVars, uploaderVars>>

\* time.sleep(args.poll_interval), lines 263 and 283.
PollSleep(from, to) ==
    /\ pc = from
    /\ delay' = PollInterval * Ulp
    /\ slept' = 0
    /\ stopLag' = -1
    /\ pc' = to
    /\ UNCHANGED <<readerVars, uploaderVars>>

PollWake(from) ==
    /\ pc = from
    /\ slept * Ulp >= delay
    /\ delay' = 0
    /\ slept' = 0
    /\ stopLag' = -1
    /\ pc' = "tl_check"
    /\ UNCHANGED <<stopping, setupVars, sessionVars, callVars, loopVars,
                   outVars>>
    /\ UNCHANGED <<readerVars, uploaderVars>>

\* transfer_loop, lines 261-264.
TlFaultSleep ==
    /\ PollSleep("tl_fault", "tl_fault_sleeping")
    /\ UNCHANGED <<stopping, setupVars, sessionVars, callVars, loopVars,
                   outVars>>

TlFaultWake == PollWake("tl_fault_sleeping")

\* publish_with_reconnect, lines 183-188: the first publish.
PwrPublish ==
    /\ pc = "pwr_publish"
    /\ trace' = Log(trace, PubEvent("telemetry", payload, PublishRc))
    /\ IF PublishRc = "ok"
       THEN /\ delivered' = TRUE
            /\ pc' = "pwr_return"
            /\ UNCHANGED loopVars
       ELSE /\ delivered' = delivered
            /\ backoff' = BackoffBase
            /\ attempt' = 0
            /\ pc' = "pwr_check"
    /\ UNCHANGED <<stopping, setupVars, sessionVars, sleepVars, payload,
                   outVars>>
    /\ UNCHANGED <<readerVars, uploaderVars>>

\* publish_with_reconnect, line 189: while not stopping_flag[0].
PwrCheck ==
    /\ pc = "pwr_check"
    /\ pc' = IF LoopCondition THEN "pwr_reconnect" ELSE "pwr_return"
    /\ UNCHANGED <<stopping, setupVars, sessionVars, sleepVars, callVars,
                   loopVars, outVars>>
    /\ UNCHANGED <<readerVars, uploaderVars>>

\* publish_with_reconnect, line 191: client.reconnect() is entered.
PwrReconnectBegin ==
    /\ pc = "pwr_reconnect"
    /\ reconnecting' = reconnecting + 1
    /\ pc' = "pwr_reconnecting"
    /\ UNCHANGED <<stopping, setupVars, sessionVars, sleepVars, callVars,
                   loopVars, stateMsg, raised, exitCode>>
    /\ UNCHANGED <<readerVars, uploaderVars>>

\* A reconnect that does not announce the birth message again.
PwrAfterReconnectNoBirth == "pwr_retry"

\* Where publish_with_reconnect goes after client.reconnect() returned:
\* lines 192-194, the birth message.
PwrAfterReconnect == "pwr_birth"

\* publish_with_reconnect, lines 191-192 and 198-199: client.reconnect()
\* returns, or raises one of the errors the loop catches.
PwrReconnectEnd ==
    /\ pc = "pwr_reconnecting"
    /\ reconnecting' = reconnecting - 1
    /\ IF brokerUp
       THEN /\ connected' = TRUE
            /\ needAck' = TRUE
            /\ trace' = Log(trace, ReconnectEvent("ok"))
            /\ pc' = PwrAfterReconnect
       ELSE /\ trace' = Log(trace, ReconnectEvent("fail"))
            /\ pc' = "pwr_backoff"
            /\ UNCHANGED <<connected, needAck>>
    /\ UNCHANGED <<stopping, setupVars, brokerUp, events, sleepVars, payload,
                   delivered, loopVars, stateMsg, raised, exitCode>>
    /\ UNCHANGED <<readerVars, uploaderVars>>

\* publish_with_reconnect, lines 193-194: birth_topic is <prefix>/state; the
\* result of the publish is not looked at.
PwrBirth ==
    /\ pc = "pwr_birth"
    /\ trace' = Log(trace, PubEvent("state", "online", "ignored"))
    /\ stateMsg' = IF PublishRc = "ok" THEN "online" ELSE stateMsg
    /\ pc' = "pwr_retry"
    /\ UNCHANGED <<stopping, setupVars, sessionVars, sleepVars, payload,
                   delivered, loopVars, reconnecting, raised, exitCode>>
    /\ UNCHANGED <<readerVars, uploaderVars>>

\* A retry loop that gives the message up when the retried publish fails.
PwrAfterRetryGivesUp(rc) == "pwr_return"

\* A retry loop that publishes again without reconnecting first.
PwrAfterRetryResubmits(rc) == IF rc = "ok" THEN "pwr_return" ELSE "pwr_retry"

\* Where publish_with_reconnect goes after the retried publish: lines 196-197
\* return on success, and a failure falls through to the sleep of line 200.
PwrAfterRetry(rc) == IF rc = "ok" THEN "pwr_return" ELSE "pwr_backoff"

\* publish_with_reconnect, lines 195-197: the same topic and payload again.
PwrRetry ==
    /\ pc = "pwr_retry"
    /\ trace' = Log(trace, PubEvent("telemetry", payload, PublishRc))
    /\ delivered' = (delivered \/ PublishRc = "ok")
    /\ pc' = PwrAfterRetry(PublishRc)
    /\ UNCHANGED <<stopping, setupVars, sessionVars, sleepVars, payload,
                   loopVars, outVars>>
    /\ UNCHANGED <<readerVars, uploaderVars>>

PwrSleep == BackoffSleep("pwr_backoff", "pwr_sleeping")

PwrWake == BackoffWake("pwr_sleeping", "pwr_check")

\* transfer_loop, line 283: publish_with_reconnect has returned.
TlSleep ==
    /\ PollSleep("pwr_return", "tl_sleeping")
    /\ payload' = "none"
    /\ trace' = <<>>
    /\ delivered' = FALSE
    /\ backoff' = 0
    /\ attempt' = 0
    /\ UNCHANGED <<stopping, setupVars, sessionVars, outVars>>

TlWake == PollWake("tl_sleeping")

\* shutdown_client, lines 288-291.
ShutdownPublish ==
    /\ pc = "shutdown"
    /\ stateMsg' = IF PublishRc = "ok" THEN "offline" ELSE stateMsg
    /\ pc' = "loop_stop"
    /\ UNCHANGED <<stopping, setupVars, sessionVars, sleepVars, callVars,
                   loopVars, reconnecting, raised, exitCode>>
    /\ UNCHANGED <<readerVars, uploaderVars>>

\* shutdown_client, line 292.
ShutdownLoopStop ==
    /\ pc = "loop_stop"
    /\ loopRunning' = FALSE
    /\ pc' = "disconnect"
    /\ UNCHANGED <<stopping, handlers, willArmed, sessionVars, sleepVars,
                   callVars, loopVars, outVars>>
    /\ UNCHANGED <<readerVars, uploaderVars>>

\* shutdown_client, line 293, and the end of main: the error that left
\* transfer_loop, if any, goes on after the finally clause.
ShutdownDisconnect ==
    /\ pc = "disconnect"
    /\ connected' = FALSE
    /\ needAck' = FALSE
    /\ exitCode' = IF raised THEN "1" ELSE "0"
    /\ pc' = "exited"
    /\ UNCHANGED <<stopping, setupVars, brokerUp, events, sleepVars, callVars,
                   loopVars, reconnecting, stateMsg, raised>>
    /\ UNCHANGED <<readerVars, uploaderVars>>

\* install_signal_handlers, lines 143-145: SIGINT or SIGTERM arrives.
Signal ==
    /\ handlers
    /\ exitCode = "running"
    /\ ~stopping
    /\ stopping' = TRUE
    /\ stopLag' = IF pc \in BackoffSleeps THEN 0 ELSE stopLag
    /\ UNCHANGED <<pc, setupVars, sessionVars, delay, slept, callVars,
                   loopVars, outVars>>
    /\ UNCHANGED <<readerVars, uploaderVars>>

\* An on_connect that publishes nothing.
BirthNever(ack, old) == old

\* if return_code == 0: publish(topics["state"], "online", qos=1,
\* retain=True): what the state topic holds after a publish that gets through.
BirthOn(ack, old) == IF ack = "connack0" THEN "online" ELSE old

\* on_connect, lines 212-223, run by the network thread: return code 0 is
\* logged and the birth message published, any other code is only logged.
OnConnect ==
    /\ loopRunning
    /\ events # <<>>
    /\ Head(events) \in {"connack0", "connack5"}
    /\ events' = Tail(events)
    /\ stateMsg' = IF PublishRc = "ok"
                   THEN BirthOn(Head(events), stateMsg) ELSE stateMsg
    /\ UNCHANGED <<pc, stopping, setupVars, brokerUp, connected, needAck,
                   sleepVars, callVars, loopVars, reconnecting, raised,
                   exitCode>>
    /\ UNCHANGED <<readerVars, uploaderVars>>

\* An on_disconnect that reconnects from the network thread.
OnDisconnectEager ==
    /\ loopRunning
    /\ events # <<>>
    /\ Head(events) = "disconnect"
    /\ events' = Tail(events)
    /\ reconnecting' = reconnecting + 1
    /\ UNCHANGED <<pc, stopping, setupVars, brokerUp, connected, needAck,
                   sleepVars, callVars, loopVars, stateMsg, raised, exitCode>>
    /\ UNCHANGED <<readerVars, uploaderVars>>

\* on_disconnect, lines 225-232, run by the network thread: the session was
\* lost, which is logged.
OnDisconnect ==
    /\ loopRunning
    /\ events # <<>>
    /\ Head(events) = "disconnect"
    /\ events' = Tail(events)
    /\ UNCHANGED <<pc, stopping, setupVars, brokerUp, connected, needAck,
                   sleepVars, callVars, loopVars, reconnecting, stateMsg,
                   raised, exitCode>>
    /\ UNCHANGED <<readerVars, uploaderVars>>

(***************************************************************************)
(* The broker.                                                             *)
(***************************************************************************)
\* The broker, or the way to it, goes down: a session is lost.
BrokerDown ==
    /\ brokerUp
    /\ exitCode = "running"
    /\ connected => Len(events) < MaxEvents
    /\ brokerUp' = FALSE
    /\ connected' = FALSE
    /\ needAck' = FALSE
    /\ events' = IF connected THEN Append(events, "disconnect") ELSE events
    /\ UNCHANGED <<pc, stopping, setupVars, sleepVars, callVars, loopVars,
                   outVars>>
    /\ UNCHANGED <<readerVars, uploaderVars>>

\* The broker comes back.
BrokerUp ==
    /\ ~brokerUp
    /\ exitCode = "running"
    /\ brokerUp' = TRUE
    /\ UNCHANGED <<pc, stopping, setupVars, connected, events, needAck,
                   sleepVars, callVars, loopVars, outVars>>
    /\ UNCHANGED <<readerVars, uploaderVars>>

\* The broker answers a connect with CONNACK, return code 0.
ConnAckAccept ==
    /\ needAck
    /\ connected
    /\ Len(events) < MaxEvents
    /\ needAck' = FALSE
    /\ events' = Append(events, "connack0")
    /\ UNCHANGED <<pc, stopping, setupVars, brokerUp, connected, sleepVars,
                   callVars, loopVars, outVars>>
    /\ UNCHANGED <<readerVars, uploaderVars>>

\* The broker answers a connect with a refusal (return code 5), which ends
\* the session.
ConnAckRefuse ==
    /\ needAck
    /\ connected
    /\ Len(events) < MaxEvents
    /\ needAck' = FALSE
    /\ events' = Append(events, "connack5")
    /\ connected' = FALSE
    /\ UNCHANGED <<pc, stopping, setupVars, brokerUp, sleepVars, callVars,
                   loopVars, outVars>>
    /\ UNCHANGED <<readerVars, uploaderVars>>

(***************************************************************************)
(* The fragment reader (ResilientRaven, src/pyrmqtt.py).                   *)
(*                                                                         *)
(* The reader thread of the pyraven library collects the lines of the      *)
(* device into self.fragment and calls handle_fragment when a fragment is  *)
(* complete.  The library is the environment: its handle_fragment parses   *)
(* the buffer and either produces a sample and clears the buffer, or       *)
(* raises and leaves the buffer as it is.  ResilientRaven wraps that call. *)
(***************************************************************************)
\* The reader takes MaxChunks chunks between two handle_fragment calls.
MaxChunks == 4
\* The history keeps the first MaxHandled outcomes of handle_fragment.
MaxHandled == 3

\* A chunk opens a fragment, continues it, closes it, or is line noise.
Chunks == {"open", "body", "close", "junk"}

\* ET.fromstring accepts the buffer: one element, opened, closed, no noise.
WellFormed(f) ==
    /\ Len(f) >= 2
    /\ f[1] = "open"
    /\ f[Len(f)] = "close"
    /\ \A i \in 2 .. Len(f) - 1 : f[i] = "body"

\* self.fragment = "" in __init__ and in both handlers.
EmptyFragment == <<>>

\* A handler that keeps the buffer.
DroppedKept(f) == f

\* What a handler of handle_fragment leaves in self.fragment.
Dropped(f) == EmptyFragment

\* The except clause that takes an exception raised by the library's
\* handle_fragment: ET.ParseError first, then Exception for all the rest.
Handler(exc) == IF exc = "ParseError" THEN "r_parse_error" ELSE "r_exception"

ReaderInit ==
    /\ rdpc = "r_read"
    /\ fragment = EmptyFragment
    /\ in_fragment = FALSE
    /\ samples = 0
    /\ fed = <<>>
    /\ outcomes = <<>>

Handled(o) == IF Len(outcomes) < MaxHandled THEN Append(outcomes, o) ELSE outcomes

\* The library's reader thread takes a chunk from the device.
RFeed ==
    /\ rdpc = "r_read"
    /\ Len(fed) < MaxChunks
    /\ \E c \in Chunks :
           /\ fed' = Append(fed, c)
           /\ IF in_fragment
              THEN /\ fragment' = Append(fragment, c)
                   /\ in_fragment' = in_fragment
                   /\ rdpc' = IF c = "close" THEN "r_handle" ELSE "r_read"
              ELSE /\ fragment' = IF c = "open" THEN <<c>> ELSE fragment
                   /\ in_fragment' = (c = "open")
                   /\ rdpc' = rdpc
    /\ UNCHANGED <<samples, outcomes>>
    /\ UNCHANGED <<relayVars, uploaderVars>>

\* super().handle_fragment(): a sample, ET.ParseError on a buffer that is
\* not well formed, or some other exception.
RHandle ==
    /\ rdpc = "r_handle"
    /\ \/ /\ WellFormed(fragment)
          /\ samples' = Min(samples + 1, MaxHandled)
          /\ fragment' = EmptyFragment
          /\ in_fragment' = FALSE
          /\ outcomes' = Handled("sample")
          /\ fed' = <<>>
          /\ rdpc' = "r_read"
       \/ /\ ~WellFormed(fragment)
          /\ rdpc' = Handler("ParseError")
          /\ UNCHANGED <<fragment, in_fragment, samples, fed, outcomes>>
       \/ /\ rdpc' = Handler("Exception")
          /\ UNCHANGED <<fragment, in_fragment, samples, fed, outcomes>>
    /\ UNCHANGED <<relayVars, uploaderVars>>

\* except ET.ParseError / except Exception: log, drop the buffer, return.
RDrop(from, o) ==
    /\ rdpc = from
    /\ fragment' = Dropped(fragment)
    /\ in_fragment' = FALSE
    /\ outcomes' = Handled(o)
    /\ fed' = <<>>
    /\ rdpc' = "r_read"
    /\ UNCHANGED samples
    /\ UNCHANGED <<relayVars, uploaderVars>>

RDropMalformed == RDrop("r_parse_error", "malformed")
RDropUnexpected == RDrop("r_exception", "unexpected")

ReaderNext ==
    \/ RFeed
    \/ RHandle
    \/ RDropMalformed
    \/ RDropUnexpected

(***************************************************************************)
(* The uploader (src/pvoutput_uploader.py).                                *)
(*                                                                         *)
(* Two threads share LATEST: the mqtt-loop thread, which runs on_connect   *)
(* and on_message, and the main thread, which reads the demand on every    *)
(* aligned tick and posts it.  An Optional[float] is a sequence of at most *)
(* one number, <<>> being None.                                            *)
(***************************************************************************)
\* The clock of the uploader stops here.
MaxNow == 6
\* PVOUTPUT_INTERVAL_SECONDS is drawn from 1 .. MaxInterval.
MaxInterval == 3
\* The count of posts within a tick stops here ("MaxPosts or more").
MaxPosts == 2

None == <<>>
Some(x) == <<x>>

\* The values a telemetry message carries under "raw_demand" (watts) and
\* under "demand" (kilowatts).
RawValues == {-200}
KwValues == {2}

\* One key of the payload dict: not in the dict, a value float() accepts, a
\* value float() rejects with TypeError or ValueError (a string that is no
\* number, null, a list), or a JSON integer beyond the range of a float,
\* which json.loads returns as an int and float() rejects with OverflowError.
Absent == [k |-> "absent", v |-> 0]
Bad == [k |-> "bad", v |-> 0]
Huge == [k |-> "huge", v |-> 0]
Num(x) == [k |-> "num", v |-> x]

Fields(S) == {Absent, Bad, Huge} \cup {Num(x) : x \in S}

\* The dicts json.loads may hand to update_from_json.
Messages == [raw : Fields(RawValues), demand : Fields(KwValues)]

NoMessage == [raw |-> Absent, demand |-> Absent]

\* try: float(x) except (TypeError, ValueError): None
CoerceFloat(f) == IF f.k = "num" THEN Some(f.v) ELSE None

\* The key update_from_json coerces: raw_demand when it is in the dict,
\* otherwise demand.
Coerced(m) == IF m.raw.k # "absent" THEN m.raw ELSE m.demand

\* float() raises an exception the except clause does not name.
Uncaught(m) == Coerced(m).k = "huge"

\* The fields of LATEST that demand_watts reads.
Cache(r, k) == [raw |-> r, kw |-> k]

\* The body of update_from_json: what it makes of the cache c on payload m.
ApplyUpdate(c, m) ==
    IF Uncaught(m) THEN c
    ELSE IF m.raw.k # "absent" THEN Cache(CoerceFloat(m.raw), c.kw)
    ELSE IF m.demand.k # "absent" THEN Cache(c.raw, CoerceFloat(m.demand))
    ELSE c

\* The body of demand_watts on the cache c.
DemandWatts(c) ==
    IF c.raw # None THEN c.raw
    ELSE IF c.kw # None THEN Some(c.kw[1] * 1000)
    ELSE None

\* A lock that excludes nobody.
LockIgnored == TRUE

\* threading.Lock: `with self._lock` enters when nobody holds the lock.
LockFree == holders = {}

UploaderCs == {"dw_raw", "dw_kw", "dw_exit"}
CallbackCs == {"cb_write", "cb_ts", "cb_exit"}

\* Where the network thread is once an exception has left on_message: in
\* the library's callback dispatch, or ended by it.
CallbackRaised == {"cb_raised", "cb_dead"}

\* The demand in watts that payload m carries, if float() accepts it.
Carried(m) ==
    IF m.raw.k = "num" THEN Some(m.raw.v)
    ELSE IF m.raw.k = "absent" /\ m.demand.k = "num" THEN Some(m.demand.v * 1000)
    ELSE None

\* The history after one more completed update.
Completed(h, m) ==
    [cache |-> ApplyUpdate(h.cache, m),
     good  |-> IF Carried(m) # None THEN Carried(m) ELSE h.good]

\* The record that stands for no payload.
NoSample == [n |-> "none", v4 |-> 0, v2 |-> None, v6 |-> None]

NoHistory == [cache |-> Cache(None, None), good |-> None]

\* The uploader before its process starts.
UploaderOff ==
    /\ upc = "u_off"
    /\ cbpc = "cb_off"
    /\ subscribed = FALSE
    /\ holders = {}
    /\ rawW = None
    /\ demKw = None
    /\ ts = 0
    /\ updPayload = NoMessage
    /\ result = None
    /\ demand_w = None
    /\ voltage_v = None
    /\ postRc = "none"
    /\ posts = 0
    /\ now = 0
    /\ interval = 1
    /\ net = 0
    /\ sample = NoSample
    /\ udelay = 0
    /\ hist = NoHistory
    /\ snap = NoHistory

\* The uploader when its process starts.
UploaderInit ==
    /\ upc = "u_main"
    /\ cbpc = "cb_off"
    /\ subscribed = FALSE
    /\ holders = {}
    /\ rawW = None
    /\ demKw = None
    /\ ts = 0
    /\ updPayload = NoMessage
    /\ result = None
    /\ demand_w = None
    /\ voltage_v = None
    /\ postRc = "none"
    /\ posts = 0
    /\ now \in 0 .. MaxInterval - 1
    /\ interval \in 1 .. MaxInterval
    /\ net \in {0, 1}
    /\ sample = NoSample
    /\ udelay = 0
    /\ hist = NoHistory
    /\ snap = NoHistory

configVars == <<interval, net>>
cacheVars == <<rawW, demKw, ts>>
callbackVars == <<cbpc, subscribed, updPayload>>
reportVars == <<result, demand_w, voltage_v, postRc, udelay, posts, sample>>

\* main(): the uploader returns at once unless it is enabled and configured.
UMain ==
    /\ upc = "u_main"
    /\ \E enabled \in BOOLEAN :
           upc' = IF enabled THEN "u_start_mqtt" ELSE "u_exited"
    /\ UNCHANGED <<configVars, cacheVars, callbackVars, reportVars, holders,
                   now, hist, snap>>
    /\ UNCHANGED <<relayVars, readerVars>>

\* start_mqtt(): client.connect() either returns, and the mqtt-loop thread
\* starts, or raises; nothing between the call and the top of the process
\* catches what it raises.
UStartMqtt ==
    /\ upc = "u_start_mqtt"
    /\ \E ok \in BOOLEAN :
           IF ok
           THEN /\ upc' = "u_align_first"
                /\ cbpc' = "cb_connack"
           ELSE /\ upc' = "u_crashed"
                /\ cbpc' = cbpc
    /\ UNCHANGED <<configVars, cacheVars, subscribed, updPayload, reportVars,
                   holders, now, hist, snap>>
    /\ UNCHANGED <<relayVars, readerVars>>

\* The least n with n * b >= a.
CeilDiv(a, b) == (a + b - 1) \div b

\* A delay to the boundary at or after t.
AlignDelayCeil(t, i) == Max(0, CeilDiv(t, i) * i - t)

\* next_tick - now, as align_and_sleep computes it at time t.
AlignDelay(t, i) == Max(0, (t \div i + 1) * i - t)

\* main calls align_and_sleep before the loop (line 284) and at the end of
\* every turn of it (line 293).
Aligns == {"u_align_first", "u_align"}
AlignSleeps == {"u_sleeping_first", "u_sleeping"}

\* align_and_sleep(): up to the call of time.sleep.
UAlign(from, to) ==
    /\ upc = from
    /\ udelay' = AlignDelay(now, interval)
    /\ upc' = to
    /\ UNCHANGED <<configVars, cacheVars, callbackVars, result, demand_w,
                   voltage_v, postRc, posts, sample, holders, now, hist,
                   snap>>
    /\ UNCHANGED <<relayVars, readerVars>>

UAlignFirst == UAlign("u_align_first", "u_sleeping_first")
UAlignNext == UAlign("u_align", "u_sleeping")

\* time.sleep returns when the delay has passed: a tick of the loop begins.
UWake ==
    /\ upc \in AlignSleeps
    /\ now + udelay <= MaxNow
    /\ now' = now + udelay
    /\ udelay' = 0
    /\ postRc' = "none"
    /\ posts' = 0
    /\ upc' = "u_read"
    /\ UNCHANGED <<configVars, cacheVars, callbackVars, result, demand_w,
                   voltage_v, sample, holders, hist, snap>>
    /\ UNCHANGED <<relayVars, readerVars>>

\* Time passes while the uploader works: the time a turn of the loop took has
\* passed when align_and_sleep reads the clock.
UTick ==
    /\ upc \in Aligns
    /\ now < MaxNow
    /\ now' = now + 1
    /\ UNCHANGED <<configVars, cacheVars, callbackVars, reportVars, holders,
                   upc, hist, snap>>
    /\ UNCHANGED <<relayVars, readerVars>>

\* demand_watts(): `with self._lock` takes the lock.
DwAcquire ==
    /\ upc = "u_read"
    /\ LockFree
    /\ holders' = holders \cup {"main"}
    /\ snap' = hist
    /\ upc' = "dw_raw"
    /\ UNCHANGED <<configVars, cacheVars, callbackVars, reportVars, now, hist>>
    /\ UNCHANGED <<relayVars, readerVars>>

\* if self._raw_demand_w is not None: return float(self._raw_demand_w)
DwReadRaw ==
    /\ upc = "dw_raw"
    /\ IF rawW # None
       THEN /\ result' = rawW
            /\ upc' = "dw_exit"
       ELSE /\ result' = result
            /\ upc' = "dw_kw"
    /\ UNCHANGED <<configVars, cacheVars, callbackVars, demand_w, voltage_v,
                   postRc, posts, sample, udelay, holders, now, hist,
                   snap>>
    /\ UNCHANGED <<relayVars, readerVars>>

\* if self._demand_kw is not None: return float(self._demand_kw) * 1000.0
\* return None
DwReadKw ==
    /\ upc = "dw_kw"
    /\ result' = IF demKw # None THEN Some(demKw[1] * 1000) ELSE None
    /\ upc' = "dw_exit"
    /\ UNCHANGED <<configVars, cacheVars, callbackVars, demand_w, voltage_v,
                   postRc, posts, sample, udelay, holders, now, hist,
                   snap>>
    /\ UNCHANGED <<relayVars, readerVars>>

\* The return leaves the `with` block and main binds demand_w.
DwRelease ==
    /\ upc = "dw_exit"
    /\ holders' = holders \ {"main"}
    /\ demand_w' = result
    /\ result' = None
    /\ upc' = "u_voltage"
    /\ UNCHANGED <<configVars, cacheVars, callbackVars, voltage_v, postRc,
                   posts, sample, udelay, now, hist, snap>>
    /\ UNCHANGED <<relayVars, readerVars>>

\* The voltages the inverter reports.
Voltages == {240}

\* get_voltage(): the voltage, or None when there is no inverter or the
\* fetch fails.
UGetVoltage ==
    /\ upc = "u_voltage"
    /\ \E v \in {None} \cup {Some(x) : x \in Voltages} : voltage_v' = v
    /\ upc' = "u_post"
    /\ UNCHANGED <<configVars, cacheVars, callbackVars, result, demand_w,
                   postRc, posts, sample, udelay, holders, now, hist,
                   snap>>
    /\ UNCHANGED <<relayVars, readerVars>>

\* A loop that posts again at once when a post fails.
AfterPostRetries(rc) == IF rc = "ok" THEN "u_align" ELSE "u_post"

\* Whatever post_pvoutput did, main goes on to align_and_sleep (line 293).
AfterPost(rc) == "u_align"

\* An import that passes a negative demand on.
ImportUnclamped(d) == d

\* 0 if demand_w < 0 else int(round(demand_w)): the demand is a whole number
\* of watts in the model, which round() and int() leave as it is.
Import(d) == IF d < 0 THEN 0 ELSE d

\* int(round(abs(demand_w)))
Export(d) == IF d < 0 THEN 0 - d ELSE d

\* The payload post_pvoutput builds (lines 220-249), less its date and time:
\* the numbers stand for the decimal strings str() makes of them.
BuildPayload(d, v, mode) ==
    IF mode = 0
    THEN [n  |-> "0",
          v4 |-> IF d = None THEN 0 ELSE Import(d[1]),
          v2 |-> None,
          v6 |-> v]
    ELSE [n  |-> "1",
          v4 |-> IF d # None /\ d[1] >= 0 THEN d[1] ELSE 0,
          v2 |-> Some(IF d # None /\ d[1] < 0 THEN Export(d[1]) ELSE 0),
          v6 |-> v]

\* post_pvoutput(), up to the request.
UBuild ==
    /\ upc = "u_post"
    /\ sample' = BuildPayload(demand_w, voltage_v, net)
    /\ upc' = "u_send"
    /\ UNCHANGED <<configVars, cacheVars, callbackVars, result, demand_w,
                   voltage_v, postRc, posts, udelay, holders, now, hist, snap>>
    /\ UNCHANGED <<relayVars, readerVars>>

\* http_post and the check of the status (lines 254-257), inside main's try:
\* a 200, a RuntimeError on any other status, or a RequestException; main
\* logs the last two and goes on.  The locals of this turn of the loop are
\* dead from here.
UPost ==
    /\ upc = "u_send"
    /\ sample' = NoSample
    /\ \E rc \in {"ok", "non200", "transport"} :
           /\ postRc' = rc
           /\ upc' = AfterPost(rc)
    /\ posts' = Min(posts + 1, MaxPosts)
    /\ demand_w' = IF upc' = "u_post" THEN demand_w ELSE None
    /\ voltage_v' = IF upc' = "u_post" THEN voltage_v ELSE None
    /\ snap' = NoHistory
    /\ UNCHANGED <<configVars, cacheVars, callbackVars, result, udelay,
                   holders, now, hist>>
    /\ UNCHANGED <<relayVars, readerVars>>

\* on_connect(): subscribes when the broker accepted the session.
UOnConnect ==
    /\ cbpc = "cb_connack"
    /\ \E accepted \in BOOLEAN : subscribed' = accepted
    /\ cbpc' = "cb_idle"
    /\ UNCHANGED <<configVars, cacheVars, updPayload, reportVars, holders,
                   upc, now, hist, snap>>
    /\ UNCHANGED <<relayVars, readerVars>>

\* on_message(): a payload that is no JSON logs a warning; a dict goes to
\* LATEST.update_from_json; any other JSON value is dropped.
UOnMessage ==
    /\ cbpc = "cb_idle"
    /\ subscribed
    /\ \/ /\ cbpc' = "cb_warn"
          /\ UNCHANGED updPayload
       \/ /\ \E m \in Messages : updPayload' = m
          /\ cbpc' = "cb_update"
    /\ UNCHANGED <<configVars, cacheVars, subscribed, reportVars, holders,
                   upc, now, hist, snap>>
    /\ UNCHANGED <<relayVars, readerVars>>

\* LOG.warning("Bad MQTT payload on %s", msg.topic)
UOnMessageWarn ==
    /\ cbpc = "cb_warn"
    /\ cbpc' = "cb_idle"
    /\ UNCHANGED <<configVars, cacheVars, subscribed, updPayload, reportVars,
                   holders, upc, now, hist, snap>>
    /\ UNCHANGED <<relayVars, readerVars>>

\* update_from_json(): `with self._lock` takes the lock.
CbAcquire ==
    /\ cbpc = "cb_update"
    /\ LockFree
    /\ holders' = holders \cup {"cb"}
    /\ cbpc' = "cb_write"
    /\ UNCHANGED <<configVars, cacheVars, subscribed, updPayload, reportVars,
                   upc, now, hist, snap>>
    /\ UNCHANGED <<relayVars, readerVars>>

\* The if / elif of update_from_json writes one field, or none. An
\* exception the except clause does not name leaves the `with` block, which
\* releases the lock, and then update_from_json and on_message, whose except
\* clause (JSONDecodeError, UnicodeDecodeError, TypeError) does not name it
\* either: no field and no timestamp is written.
CbWrite ==
    /\ cbpc = "cb_write"
    /\ IF Uncaught(updPayload)
       THEN /\ holders' = holders \ {"cb"}
            /\ updPayload' = NoMessage
            /\ cbpc' = "cb_raised"
            /\ UNCHANGED <<rawW, demKw>>
       ELSE /\ LET c == ApplyUpdate(Cache(rawW, demKw), updPayload)
               IN  /\ rawW' = c.raw
                   /\ demKw' = c.kw
            /\ cbpc' = "cb_ts"
            /\ UNCHANGED <<holders, updPayload>>
    /\ UNCHANGED <<configVars, ts, subscribed, reportVars,
                   upc, now, hist, snap>>
    /\ UNCHANGED <<relayVars, readerVars>>

\* The exception reaches the library's network thread, started by
\* loop_start() in start_mqtt: it goes on with the next message or ends.
CbRaised ==
    /\ cbpc = "cb_raised"
    /\ cbpc' \in {"cb_idle", "cb_dead"}
    /\ UNCHANGED <<configVars, cacheVars, subscribed, updPayload, reportVars,
                   holders, upc, now, hist, snap>>
    /\ UNCHANGED <<relayVars, readerVars>>

\* self._ts = time.time()
CbStamp ==
    /\ cbpc = "cb_ts"
    /\ ts' = now
    /\ cbpc' = "cb_exit"
    /\ UNCHANGED <<configVars, rawW, demKw, subscribed, updPayload,
                   reportVars, holders, upc, now, hist, snap>>
    /\ UNCHANGED <<relayVars, readerVars>>

\* The end of the `with` block: the update is complete.
CbRelease ==
    /\ cbpc = "cb_exit"
    /\ holders' = holders \ {"cb"}
    /\ hist' = Completed(hist, updPayload)
    /\ updPayload' = NoMessage
    /\ cbpc' = "cb_idle"
    /\ UNCHANGED <<configVars, cacheVars, subscribed, reportVars,
                   upc, now, snap>>
    /\ UNCHANGED <<relayVars, readerVars>>

UploaderStep ==
    \/ UMain \/ UStartMqtt \/ UAlignFirst \/ UAlignNext \/ UWake
    \/ DwAcquire \/ DwReadRaw \/ DwReadKw \/ DwRelease
    \/ UGetVoltage \/ UBuild \/ UPost

CallbackStep ==
    \/ UOnConnect \/ UOnMessage \/ UOnMessageWarn
    \/ CbAcquire \/ CbWrite \/ CbRaised \/ CbStamp \/ CbRelease

RelayStep ==
    \/ MainOpenDevice \/ MainMakeClient \/ MainInstall \/ MainLoopStart
    \/ CwbEnter \/ CwbCheck \/ CwbConnect \/ CwbSleep \/ CwbWake
    \/ TlCheck \/ TlPoll \/ TlFaultSleep \/ TlFaultWake
    \/ PwrPublish \/ PwrCheck \/ PwrReconnectBegin \/ PwrReconnectEnd
    \/ PwrBirth \/ PwrRetry \/ PwrSleep \/ PwrWake
    \/ TlSleep \/ TlWake
    \/ ShutdownPublish \/ ShutdownLoopStop \/ ShutdownDisconnect

Next ==
    \/ RelayStep
    \/ Tick
    \/ Signal
    \/ OnConnect \/ OnDisconnect
    \/ BrokerDown \/ BrokerUp \/ ConnAckAccept \/ ConnAckRefuse

Init == RelayInit /\ ReaderInit /\ UploaderOff

Spec == Init /\ [][Next]_vars

\* The relay when no signal arrives and the broker refuses no session.  The
\* main thread keeps running and time passes.
LiveNext ==
    \/ RelayStep
    \/ Tick
    \/ OnConnect \/ OnDisconnect
    \/ BrokerDown \/ BrokerUp \/ ConnAckAccept

SpecLive ==
    Init /\ [][LiveNext]_vars /\ WF_vars(RelayStep) /\ WF_vars(Tick)

\* The relay with signals and a broker that does whatever it likes, where
\* every call the main thread is in returns and time passes in every sleep.
SpecStop ==
    Init /\ [][Next]_vars /\ WF_vars(RelayStep) /\ WF_vars(Tick)

\* The uploader's process: its two threads and its clock.  The relay is a
\* process of its own and does not move.
UploaderNext ==
    \/ UploaderStep
    \/ CallbackStep
    \/ UTick

SpecUploaderInit == RelayInit /\ brokerUp /\ ReaderInit /\ UploaderInit

\* The reader thread alone.
SpecReaderInit == RelayInit /\ brokerUp /\ ReaderInit /\ UploaderOff

SpecReader == SpecReaderInit /\ [][ReaderNext]_vars

SpecUploader == SpecUploaderInit /\ [][UploaderNext]_vars

(***************************************************************************)
(* What the trace of a publish_with_reconnect call holds.                  *)
(***************************************************************************)
Reconnects(t) == {i \in DOMAIN t : t[i][1] = "reconnect"}
ReconnectsOk(t) == {i \in Reconnects(t) : t[i][4] = "ok"}
Submits(t) == {i \in DOMAIN t : t[i][1] = "publish" /\ t[i][2] = "telemetry"}
Births(t) == {i \in DOMAIN t : t[i] = PubEvent("state", "online", "ignored")}
First(S) == CHOOSE i \in S : \A j \in S : i <= j

(***************************************************************************)
(* C1: whenever publish_with_reconnect returns to its caller, a publish of *)
(* the given topic and payload made during the call returned success, or   *)
(* the stop flag is set: no message is abandoned while the flag is unset.  *)
(***************************************************************************)
C1_ReturnsDeliveredOrStopping ==
    pc = "pwr_return" => (delivered \/ stopping)

\* The call returns, the flag unset, after failed attempts and a recovery.
C1_Witness ==
    /\ pc = "pwr_return"
    /\ ~stopping
    /\ delivered
    /\ attempt >= 2
    /\ ReconnectsOk(trace) # {}

(***************************************************************************)
(* C2: against a broker that fails the first publish and accepts the next  *)
(* reconnect and the next publish, the call makes exactly one reconnect    *)
(* and exactly one retried publish of the same topic and payload, with a   *)
(* publish of "online" on the state topic between the two.                 *)
(***************************************************************************)
C2_FailsOnceThenAccepts ==
    /\ pc = "pwr_return"
    /\ trace # <<>>
    /\ trace[1] = PubEvent("telemetry", payload, "fail")
    /\ Reconnects(trace) # {}
    /\ trace[First(Reconnects(trace))][4] = "ok"
    /\ Submits(trace) \ {1} # {}
    /\ trace[First(Submits(trace) \ {1})][4] = "ok"

C2_OneReconnectBirthOneRetry ==
    C2_FailsOnceThenAccepts =>
        /\ Len(trace) < MaxTrace
        /\ Cardinality(Reconnects(trace)) = 1
        /\ Cardinality(Submits(trace)) = 2
        /\ \A i \in Submits(trace) : trace[i][3] = payload
        /\ \E b \in Births(trace) :
             /\ First(Reconnects(trace)) < b
             /\ b < First(Submits(trace) \ {1})

C2_Witness ==
    /\ C2_FailsOnceThenAccepts
    /\ delivered
    /\ ~stopping

(***************************************************************************)
(* C3: within one call the payload is submitted once and then at most once *)
(* after each successful reconnect: never twice without a successful       *)
(* reconnect in between, so at most 1 + (successful reconnects) times.     *)
(***************************************************************************)
C3_OneSubmitPerReconnect ==
    /\ \A i, j \in Submits(trace) :
         i < j => \E r \in ReconnectsOk(trace) : i < r /\ r < j
    /\ Cardinality(Submits(trace)) <= 1 + Cardinality(ReconnectsOk(trace))

\* Three submissions, two successful reconnects between them.
C3_Witness ==
    /\ Cardinality(Submits(trace)) = 3
    /\ Cardinality(ReconnectsOk(trace)) = 2

(***************************************************************************)
(* C4: at-least-once delivery.  If the stop flag is never set and the      *)
(* broker from some moment on accepts the reconnect and the publish that   *)
(* follows it, every call of publish_with_reconnect returns, and returns   *)
(* only after a successful publish of its payload.                         *)
(***************************************************************************)
InPublishWithReconnect ==
    pc \in {"pwr_publish", "pwr_check", "pwr_reconnect", "pwr_reconnecting",
            "pwr_birth", "pwr_retry", "pwr_backoff", "pwr_sleeping"}

C4_AtLeastOnce ==
    ([]~stopping /\ <>[]brokerUp) =>
        /\ [](pc = "pwr_return" => delivered)
        /\ (InPublishWithReconnect ~> pc = "pwr_return")

\* A call returns delivered after the backoff reached its ceiling.
C4_Witness ==
    /\ pc = "pwr_return"
    /\ delivered
    /\ backoff = DEFAULT_BACKOFF_MAX

(***************************************************************************)
(* C5: a stop flag set during a backoff sleep of connect_with_backoff or   *)
(* publish_with_reconnect ends the retry loop within one backoff unit (the *)
(* base delay, one second): once a unit has passed since the flag rose in  *)
(* a backoff sleep, that sleep is over.                                    *)
(***************************************************************************)
C5_StopEndsSleepWithinOneUnit ==
    (pc \in BackoffSleeps /\ stopLag >= BackoffBase) => slept * Ulp >= delay

(***************************************************************************)
(* C6: the delay slept after the n-th failed attempt of a call (n from 0   *)
(* in every call) is min(2^n, 60) seconds plus a jitter in [0, 1).  As the *)
(* claim has it the delay lies in [min(2^n, 60), min(2^n, 60) + 1); the    *)
(* float addition rounds, and the delay lies in the closed interval.       *)
(***************************************************************************)
BaseDelay(n) == Min(Pow2(n), DEFAULT_BACKOFF_MAX)

C6_DelayInHalfOpenWindow ==
    pc \in BackoffSleeps =>
        /\ BaseDelay(attempt) * Ulp <= delay
        /\ delay < (BaseDelay(attempt) + 1) * Ulp

C6_DelayInClosedWindow ==
    pc \in BackoffSleeps =>
        /\ backoff = BaseDelay(attempt)
        /\ BaseDelay(attempt) * Ulp <= delay
        /\ delay <= (BaseDelay(attempt) + 1) * Ulp

\* The ceiling is reached (2^6 > 60) and the sum has rounded up to 61 s.
C6_Witness ==
    /\ pc \in BackoffSleeps
    /\ attempt = MaxAttempt
    /\ Pow2(attempt) > DEFAULT_BACKOFF_MAX
    /\ delay = (DEFAULT_BACKOFF_MAX + 1) * Ulp

(***************************************************************************)
(* C9: reconnection is lazy.  on_disconnect starts no reconnect; a         *)
(* client.reconnect() is in progress only inside publish_with_reconnect,   *)
(* after a publish of that call failed, so never two at a time.            *)
(***************************************************************************)
C9_LazyReconnect ==
    /\ reconnecting <= 1
    /\ reconnecting = 1 =>
         /\ pc = "pwr_reconnecting"
         /\ trace # <<>>
         /\ trace[1] = PubEvent("telemetry", payload, "fail")
    /\ pc = "pwr_reconnecting" => reconnecting = 1

\* The session dropped, on_disconnect has still to run, and the one
\* reconnect in progress is that of the failed publish.
C9_Witness ==
    /\ reconnecting = 1
    /\ events = <<"disconnect">>
    /\ loopRunning

(***************************************************************************)
(* C7: last update wins.  Whenever demand_watts returns, it returns the    *)
(* watts of the most recent completed update that carried a value float()  *)
(* accepted (raw_demand as it is, demand times 1000), whichever field the  *)
(* updates before it used, and None if there was no such update.           *)
(***************************************************************************)
C7_LastUpdateWins ==
    upc = "u_voltage" => demand_w = snap.good

(***************************************************************************)
(* C8: the critical sections of update_from_json and demand_watts never    *)
(* overlap; a read returns what demand_watts makes of the cache that the   *)
(* updates completed before it took the lock amount to, in the order they  *)
(* completed; and a thread waits only for the lock: inside its critical    *)
(* section it can always step, and with the lock free it can take it.      *)
(***************************************************************************)
C8_Linearizable ==
    /\ ~(upc \in UploaderCs /\ cbpc \in CallbackCs)
    /\ upc = "u_voltage" => demand_w = DemandWatts(snap.cache)
    /\ upc \in UploaderCs => ENABLED (DwReadRaw \/ DwReadKw \/ DwRelease)
    /\ cbpc \in CallbackCs => ENABLED (CbWrite \/ CbStamp \/ CbRelease)
    /\ (upc = "u_read" /\ cbpc \notin CallbackCs) => ENABLED DwAcquire
    /\ (cbpc = "cb_update" /\ upc \notin UploaderCs) => ENABLED CbAcquire

\* A read is about to return the 2 kW of a completed update while the
\* callback thread waits for the lock with a raw_demand that would change
\* the answer.
C8_Witness ==
    /\ upc = "dw_exit"
    /\ result = Some(2000)
    /\ cbpc = "cb_update"
    /\ updPayload.raw.k = "num"

(***************************************************************************)
(* C10: a failed broker connect never ends the process.  In the uploader   *)
(* the process never dies of the connect of start_mqtt.                    *)
(***************************************************************************)
C10_ConnectFailureNotFatal ==
    upc # "u_crashed"

(***************************************************************************)
(* C11: each aligned tick makes exactly one upload attempt.  A tick begins *)
(* on a multiple of the interval; until its post_pvoutput call the tick    *)
(* has made no attempt, after it exactly one, and never a second; a post   *)
(* that ends in a non-200 answer or a transport failure leaves the loop    *)
(* running: main goes to align_and_sleep, wakes at the next tick and can   *)
(* always take its next step there (but for the lock of the cache).        *)
(***************************************************************************)
TickPcs == {"u_read", "u_voltage", "u_post", "u_send"} \cup UploaderCs

C11_OneAttemptPerTick ==
    /\ posts <= 1
    /\ upc \in TickPcs =>
         (posts = 0 /\ postRc = "none" /\ now % interval = 0)
    /\ upc \in {"u_align", "u_sleeping"} => (posts = 1 /\ postRc # "none")
    /\ postRc \in {"non200", "transport"} => upc \in {"u_align", "u_sleeping"}
    /\ upc \in (TickPcs \ {"u_read"}) \cup {"u_align"} => ENABLED UploaderStep
    /\ (upc = "u_read" /\ holders = {}) => ENABLED DwAcquire
    /\ (upc = "u_sleeping" /\ now + udelay <= MaxNow) => ENABLED UWake

\* The upload of a tick got a non-200 answer, and main sleeps towards the
\* next tick, which the clock of the model still reaches.
C11_Witness ==
    /\ upc = "u_sleeping"
    /\ postRc = "non200"
    /\ posts = 1
    /\ now + udelay <= MaxNow

(***************************************************************************)
(* C12: a device read that raises an I/O fault publishes nothing in that   *)
(* cycle and does not end the loop.  The faulty cycle has made no broker   *)
(* call and raises nothing; the loop is left only with the stop flag set   *)
(* or by an error the loop does not catch; after the fault the loop sleeps *)
(* the poll interval, then reads the stop flag, and polls again if the     *)
(* flag is unset.                                                          *)
(***************************************************************************)
FaultCycleStep ==
    /\ (pc = "tl_fault" /\ pc' # pc) =>
           (pc' = "tl_fault_sleeping" /\ delay' = PollInterval * Ulp)
    /\ (pc = "tl_fault_sleeping" /\ pc' # pc) =>
           (pc' = "tl_check" /\ slept * Ulp >= delay)
    /\ (pc = "tl_check" /\ ~stopping /\ pc' # pc) => pc' = "tl_poll"

C12_FaultyReadSkipsCycle ==
    /\ [](pc \in {"tl_fault", "tl_fault_sleeping"} =>
            /\ trace = <<>>
            /\ ~delivered
            /\ ~raised
            /\ exitCode = "running")
    /\ [](pc = "shutdown" => (stopping \/ raised))
    /\ [][FaultCycleStep]_vars

\* The sleep after a faulty read is over, the stop flag is unset and the
\* broker session is up: the loop is about to poll again.
C12_Witness ==
    /\ pc = "tl_fault_sleeping"
    /\ slept * Ulp >= delay
    /\ ~stopping
    /\ connected

(***************************************************************************)
(* C13: telemetry is published in the order the samples are read, one      *)
(* publish_with_reconnect call per sample.  Every telemetry submission of  *)
(* a call carries the sample read for that call; a call is entered only    *)
(* from a read; and a sample is read only at the top of the loop, when the *)
(* call for the sample before it has returned and nothing of that call is  *)
(* left, so no sample overtakes another and no two share a call.           *)
(***************************************************************************)
SampleStep ==
    /\ payload' # payload =>
           \/ /\ pc = "tl_poll"
              /\ payload = "none"
              /\ trace = <<>>
              /\ payload' \in Payloads
              /\ pc' = "pwr_publish"
           \/ /\ pc = "pwr_return"
              /\ payload' = "none"
    /\ (pc' = "pwr_publish" /\ pc # "pwr_publish") => pc = "tl_poll"

C13_PublishInReadOrder ==
    /\ [](\A i \in Submits(trace) : trace[i][3] = payload)
    /\ []((InPublishWithReconnect \/ pc = "pwr_return") <=> payload \in Payloads)
    /\ [][SampleStep]_vars

\* The call for a sample has submitted it twice, with a reconnect between,
\* and has returned: the next sample has not been read yet.
C13_Witness ==
    /\ pc = "pwr_return"
    /\ Cardinality(Submits(trace)) = 2
    /\ delivered
    /\ payload = "p2"

(***************************************************************************)
(* C14: no failure of handle_fragment reaches its caller.  Whatever the    *)
(* library's handle_fragment raises, a handler takes it; the handler       *)
(* leaves the buffer empty and in_fragment false, as they were when the    *)
(* reader was made, and produces no sample; so the buffer that the next    *)
(* call parses holds the chunks fed since, and a well-formed fragment fed  *)
(* after a failure is well formed in the buffer and can be parsed into a   *)
(* sample.                                                                 *)
(***************************************************************************)
DropStep ==
    (rdpc \in {"r_parse_error", "r_exception"} /\ rdpc' # rdpc) =>
        /\ rdpc' = "r_read"
        /\ fragment' = EmptyFragment
        /\ in_fragment' = FALSE
        /\ samples' = samples

C14_FragmentFailureContained ==
    /\ [](rdpc \in {"r_read", "r_handle", "r_parse_error", "r_exception"})
    /\ [][DropStep]_vars
    /\ []((rdpc = "r_read" /\ fed = <<>>) =>
            (fragment = EmptyFragment /\ ~in_fragment))
    /\ []((rdpc = "r_handle" /\ WellFormed(fed)) =>
            (fragment = fed /\ ENABLED (RHandle /\ rdpc' = "r_read")))

\* A malformed fragment was dropped, and the well-formed fragment fed after
\* it has been parsed into a sample.
C14_Witness ==
    /\ Len(outcomes) >= 2
    /\ outcomes[1] = "malformed"
    /\ outcomes[2] = "sample"
    /\ samples = 1

(***************************************************************************)
(* C15: align_and_sleep(interval), called at time now, waits exactly       *)
(* ceil(now / interval) * interval - now, and not at all when now is on a  *)
(* boundary.                                                               *)
(***************************************************************************)
C15_WaitsToCeiling ==
    upc \in AlignSleeps => udelay = CeilDiv(now, interval) * interval - now

(***************************************************************************)
(* C15, as the code has it: align_and_sleep waits to the first multiple of *)
(* the interval strictly after now, a full interval when now is on a       *)
(* boundary, and the loop wakes on a multiple of the interval.             *)
(***************************************************************************)
C15_WaitsToNextBoundary ==
    /\ upc \in AlignSleeps =>
         /\ 0 < udelay
         /\ udelay <= interval
         /\ (now + udelay) % interval = 0
         /\ udelay = (now \div interval + 1) * interval - now
    /\ upc = "u_read" => now % interval = 0

\* align_and_sleep was called on a boundary, after a tick, and sleeps a full
\* interval of three seconds.
C15_Witness ==
    /\ upc = "u_sleeping"
    /\ interval = MaxInterval
    /\ now % interval = 0
    /\ udelay = interval

(***************************************************************************)
(* C16: the sample post_pvoutput builds from a demand d, absent or a whole *)
(* number of watts.  Gross mode: n = "0", v4 = max(d, 0), 0 when d is      *)
(* absent, and no v2.  Net mode: n = "1", v4 = max(d, 0) and v2 =          *)
(* max(-d, 0), both present and both 0 when d is absent, so one of the two *)
(* is 0.                                                                   *)
(***************************************************************************)
WattsOrZero(d) == IF d = None THEN 0 ELSE d[1]

C16_SampleConstruction ==
    upc = "u_send" =>
        /\ net = 0 =>
              /\ sample.n = "0"
              /\ sample.v4 = Max(WattsOrZero(demand_w), 0)
              /\ sample.v2 = None
        /\ net = 1 =>
              /\ sample.n = "1"
              /\ sample.v4 = Max(WattsOrZero(demand_w), 0)
              /\ sample.v2 = Some(Max(0 - WattsOrZero(demand_w), 0))
              /\ (sample.v4 = 0 \/ sample.v2 = Some(0))

\* Net mode with a demand of -200 W: 200 W of export and no import.
C16_Witness ==
    /\ upc = "u_send"
    /\ net = 1
    /\ demand_w = Some(-200)
    /\ sample.v2 = Some(200)
    /\ sample.v4 = 0

(***************************************************************************)
(* C17: if the device cannot be opened at startup the relay exits with     *)
(* code 2, a code no other exit uses.  It has then made no broker client   *)
(* (no last will armed, no callbacks, no network loop), no connect attempt *)
(* and no publish, and it takes no further step: the open is not retried.  *)
(***************************************************************************)
C17_OpenFailureExitsWith2 ==
    /\ exitCode = "2" =>
         /\ pc = "exited"
         /\ ~willArmed
         /\ ~handlers
         /\ ~loopRunning
         /\ ~connected
         /\ ~needAck
         /\ reconnecting = 0
         /\ events = <<>>
         /\ stateMsg = "none"
         /\ trace = <<>>
         /\ ~ENABLED RelayStep
    /\ (pc = "exited" /\ exitCode # "2") => (willArmed /\ exitCode \in {"0", "1"})
    /\ pc = "exited" <=> exitCode # "running"

\* The open failed while the broker was up: the relay is gone with code 2.
C17_Witness ==
    /\ exitCode = "2"
    /\ pc = "exited"
    /\ brokerUp

(***************************************************************************)
(* C18: the "offline" last will is armed before the first connect attempt, *)
(* and every connect the broker acknowledges with return code 0 is         *)
(* followed by the publish of the "online" birth message: wherever a       *)
(* connect may have been tried the will is armed, and the only step that   *)
(* takes an acknowledgement with code 0 is on_connect, on the running      *)
(* network loop, which publishes "online" on the state topic (the publish  *)
(* gets through if the session is still up).                               *)
(***************************************************************************)
BirthStep ==
    (events # <<>> /\ Head(events) = "connack0" /\ Len(events') < Len(events)) =>
        /\ events' = Tail(events)
        /\ loopRunning
        /\ connected => stateMsg' = "online"

C18_WillBeforeConnectBirthAfter ==
    /\ [](pc \notin {"open_device", "make_client", "exited"} => willArmed)
    /\ []((connected \/ needAck \/ events # <<>> \/ stateMsg # "none")
            => willArmed)
    /\ [][BirthStep]_vars

\* The broker has acknowledged the connect, on_connect has run and the state
\* topic holds "online", while the main thread has not published yet.
C18_Witness ==
    /\ stateMsg = "online"
    /\ pc = "tl_check"
    /\ willArmed
    /\ events = <<>>
    /\ ~needAck

(***************************************************************************)
(* C19: an update_from_json whose raw_demand or demand value fails numeric *)
(* coercion raises no error and leaves that field absent, and on a cache   *)
(* in which no value has arrived demand_watts() still returns absent: no   *)
(* exception leaves the update, and once the update has written, a value   *)
(* float() rejected has left its field None, and the whole cache empty if  *)
(* no update had stored a value before.                                    *)
(***************************************************************************)
FailsCoercion(m) == Coerced(m).k \in {"bad", "huge"}

C19_CoercionFailureLeavesAbsent ==
    /\ cbpc \notin CallbackRaised
    /\ (cbpc \in {"cb_ts", "cb_exit"} /\ FailsCoercion(updPayload)) =>
           /\ updPayload.raw.k # "absent" => rawW = None
           /\ updPayload.raw.k = "absent" => demKw = None
           /\ hist.cache = Cache(None, None) =>
                  DemandWatts(Cache(rawW, demKw)) = None

(***************************************************************************)
(* C20: the stop flag is checked before each attempt; once it is set,      *)
(* connect_with_backoff starts no further connect attempt and              *)
(* publish_with_reconnect no further reconnect attempt, and each returns   *)
(* when it next evaluates its loop condition.                              *)
(***************************************************************************)
LoopChecks == {"cwb_check", "pwr_check"}
Attempts == {"cwb_connect", "pwr_reconnect"}

\* client.connect or client.reconnect is called.
AttemptStarts == pc \in Attempts /\ pc' # pc

\* An evaluation of the loop condition: with the flag set the function
\* returns, with the flag clear it goes on to the attempt.
CheckStep ==
    (pc \in LoopChecks /\ pc' # pc) =>
        /\ (stopping /\ pc = "cwb_check") => pc' = "tl_check"
        /\ (stopping /\ pc = "pwr_check") => pc' = "pwr_return"
        /\ ~stopping => pc' \in Attempts

\* The statement as it reads: no attempt starts while the flag is set.
C20_NoAttemptOnceStopping ==
    [][CheckStep /\ (AttemptStarts => ~stopping)]_vars

\* An attempt is reached only from an evaluation of the loop condition that
\* found the flag clear, so with the flag set only an attempt whose check
\* has already passed can still start, and the flag stays set.
C20_AttemptOnlyAfterClearCheck ==
    [][/\ CheckStep
       /\ (pc' \in Attempts /\ pc' # pc) => (pc \in LoopChecks /\ ~stopping)
       /\ (stopping /\ pc \notin Attempts) => pc' \notin Attempts
       /\ stopping => stopping']_vars

\* publish_with_reconnect has returned from its loop condition, after at
\* least one failed reconnect, without having delivered the sample.
C20_Witness ==
    /\ pc = "pwr_return"
    /\ stopping
    /\ ~delivered
    /\ attempt >= 1

(***************************************************************************)
(* C21: on every exit from transfer_loop, by the stop flag or by an        *)
(* escaping error, the relay publishes "offline", then stops the network   *)
(* loop, then disconnects, in that order, and issues no telemetry and no   *)
(* "online" publish after the "offline" publish.                           *)
(***************************************************************************)
\* transfer_loop and the publish_with_reconnect it calls.
InTransferLoop ==
    {"tl_check", "tl_poll", "tl_fault", "tl_fault_sleeping", "tl_sleeping",
     "pwr_publish", "pwr_check", "pwr_reconnect", "pwr_reconnecting",
     "pwr_birth", "pwr_retry", "pwr_backoff", "pwr_sleeping", "pwr_return"}

\* shutdown_client has called publish(topics["state"], "offline").
OfflineIssued ==
    \/ pc \in {"loop_stop", "disconnect"}
    \/ pc = "exited" /\ exitCode \in {"0", "1"}

\* The main thread publishes telemetry or the birth message, or on_connect
\* answers an accepted connect with the birth message.
RelayPublishes ==
    \/ pc \in {"pwr_publish", "pwr_birth", "pwr_retry"} /\ pc' # pc
    \/ /\ events # <<>>
       /\ Head(events) = "connack0"
       /\ events' = Tail(events)

\* Leaving transfer_loop leads to shutdown_client, whose three calls follow
\* one another.
ShutdownOrder ==
    /\ (pc \in InTransferLoop /\ pc' \notin InTransferLoop) => pc' = "shutdown"
    /\ (pc = "shutdown" /\ pc' # pc) => (pc' = "loop_stop" /\ loopRunning')
    /\ (pc = "loop_stop" /\ pc' # pc) =>
           (pc' = "disconnect" /\ ~loopRunning' /\ connected' = connected)
    /\ (pc = "disconnect" /\ pc' # pc) => (pc' = "exited" /\ ~connected')

C21_OfflineIsTheLastPublish ==
    [][ShutdownOrder /\ (OfflineIssued => ~RelayPublishes)]_vars

(***************************************************************************)
(* C22: shutdown terminates.  Once the stop flag is set, and provided      *)
(* every device read, broker call and sleep in progress returns, the relay *)
(* leaves connect_with_backoff, publish_with_reconnect and transfer_loop   *)
(* and reaches shutdown_client, whatever the broker and the device do.     *)
(***************************************************************************)
InShutdownClient == pc \in {"shutdown", "loop_stop", "disconnect", "exited"}

C22_StopReachesShutdown == stopping ~> InShutdownClient

\* transfer_loop has returned on the stop flag and shutdown_client is about
\* to run, with the broker down and no session.
C22_Witness ==
    /\ pc = "shutdown"
    /\ stopping
    /\ ~raised
    /\ ~brokerUp
    /\ ~connected

====
